---- MODULE Spec2Model ----
(***************************************************************************)
(* Model of ladybug_rhino/fromobjects.py: legend_objects and               *)
(* compass_objects, the two functions that turn a Legend or a Compass      *)
(* into a flat list of geometry.  Each kernel call that builds one         *)
(* primitive is one step; a call's locals, its position and the list       *)
(* objects it allocates are the state.                                     *)
(***************************************************************************)
EXTENDS Integers, Sequences, FiniteSets, TLC

VARIABLES pc, i, compass, z, custom_angles, projection, font, legend,
          maj_txt, min_txt, result, legend_mesh, legend_title, legend_text,
          heap, kept, scriptcontext, units, factor, raised, parked

vars == <<pc, i, compass, z, custom_angles, projection, font, legend,
          maj_txt, min_txt, result, legend_mesh, legend_title, legend_text,
          heap, kept, scriptcontext, units, factor, raised, parked>>

args == <<compass, z, custom_angles, projection, font, legend>>

locals == <<maj_txt, min_txt, legend_mesh, legend_title, legend_text>>

\* what a step of legend_objects or compass_objects never touches: the
\* state of conversion_factor, the exception in flight, the other thread
others == <<scriptcontext, units, factor, raised, parked>>

(* ---------------------------------------------------------------------- *)
(* Bounds of the model                                                     *)
(* ---------------------------------------------------------------------- *)

\* longest tick / text / point sequence of a descriptor
MaxLen == 2

\* longest custom_angles list
MaxAngles == 2

\* number of returned lists the caller holds on to
MaxKept == 2

(* ---------------------------------------------------------------------- *)
(* Numbers, strings, options                                               *)
(* ---------------------------------------------------------------------- *)

Min(a, b) == IF a <= b THEN a ELSE b

RECURSIVE GCD(_, _)
GCD(a, b) == IF b = 0 THEN a ELSE GCD(b, a % b)

\* a number n/d in lowest terms (radius and text heights are not integers)
Rat(n, d) == [n |-> n \div GCD(n, d), d |-> d \div GCD(n, d)]

\* q / k for a number q and a positive integer literal k
Div(q, k) == Rat(q.n, q.d * k)

Digits == <<"0", "1", "2", "3", "4", "5", "6", "7", "8", "9">>

\* str(n) of a non-negative integer: its decimal digits
RECURSIVE str(_)
str(n) == IF n < 10 THEN Digits[n + 1]
          ELSE str(n \div 10) \o Digits[(n % 10) + 1]

\* an optional argument: None, or a value
None == [some |-> FALSE, v |-> <<>>]

Some(v) == [some |-> TRUE, v |-> v]

Max(a, b) == IF a >= b THEN a ELSE b

\* pairs by index as many as the longer sequence has, the shorter sequence
\* padded with its last element, in place of zip(a, b)
zip_padded(a, b) ==
    IF Len(a) = 0 \/ Len(b) = 0 THEN <<>>
    ELSE [k \in 1..Max(Len(a), Len(b)) |->
             <<a[Min(k, Len(a))], b[Min(k, Len(b))]>>]

\* zip(a, b): pairs by index, as many as the shorter sequence has
zip(a, b) == [k \in 1..Min(Len(a), Len(b)) |-> <<a[k], b[k]>>]

(* ---------------------------------------------------------------------- *)
(* str.title(): characters are one-letter strings                          *)
(* ---------------------------------------------------------------------- *)

LowerAlpha == <<"a", "c", "e", "g", "h", "i", "k", "n", "o", "p", "r", "s",
                "t", "u", "w">>

UpperAlpha == <<"A", "C", "E", "G", "H", "I", "K", "N", "O", "P", "R", "S",
                "T", "U", "W">>

IndexIn(c, alpha) ==
    IF \E k \in 1..Len(alpha) : alpha[k] = c
    THEN CHOOSE k \in 1..Len(alpha) : alpha[k] = c
    ELSE 0

IsCased(c) == IndexIn(c, LowerAlpha) > 0 \/ IndexIn(c, UpperAlpha) > 0

upper(c) == IF IndexIn(c, LowerAlpha) > 0
            THEN UpperAlpha[IndexIn(c, LowerAlpha)] ELSE c

lower(c) == IF IndexIn(c, UpperAlpha) > 0
            THEN LowerAlpha[IndexIn(c, UpperAlpha)] ELSE c

\* s[:1].upper() + s[1:] in place of s.title()
title_first_letter_only(s) ==
    [k \in 1..Len(s) |-> IF k = 1 THEN upper(s[k]) ELSE s[k]]

\* s.title(): a letter that follows a letter is lowercased, any other
\* letter is uppercased; characters that are not letters are kept
title(s) ==
    [k \in 1..Len(s) |->
        IF k > 1 /\ IsCased(s[k - 1]) THEN lower(s[k]) ELSE upper(s[k])]

Orthographic == <<"O", "r", "t", "h", "o", "g", "r", "a", "p", "h", "i", "c">>

Stereographic ==
    <<"S", "t", "e", "r", "e", "o", "g", "r", "a", "p", "h", "i", "c">>

(* ---------------------------------------------------------------------- *)
(* Geometry kernel: constructors that record their arguments               *)
(* ---------------------------------------------------------------------- *)

from_arc2d(arc, zz) == [kind |-> "Arc", geo |-> arc, z |-> zz]

from_linesegment2d(line, zz) == [kind |-> "Line", geo |-> line, z |-> zz]

from_mesh3d(mesh) == [kind |-> "Mesh", geo |-> mesh]

Point3D(x, y, zz) == [x |-> x, y |-> y, z |-> zz]

Plane(o) == [o |-> o]

\* justification of a label built without justification arguments
DefaultJustify == -1

text_objects(text, plane, height, fnt, hj, vj) ==
    [kind |-> "Label", text |-> text, plane |-> plane, height |-> height,
     font |-> fnt, hj |-> hj, vj |-> vj]

(* ---------------------------------------------------------------------- *)
(* Descriptors (built upstream by ladybug; read here)                      *)
(* ---------------------------------------------------------------------- *)

\* n distinct geometry items of one group
Items(grp, n) == [k \in 1..n |-> [grp |-> grp, i |-> k]]

\* n distinct 2D points of one group
Points2D(n, y) == [k \in 1..n |-> [x |-> k, y |-> y]]

\* n distinct texts of one group
Texts(prefix, n) == [k \in 1..n |-> prefix \o str(k)]

\* compass.ticks_from_angles(angles): one tick per angle, in order
ticks_from_angles(angles) ==
    [k \in 1..Len(angles) |-> [grp |-> "angle_tick", i |-> angles[k]]]

\* compass.label_points_from_angles(angles): one point per angle, in order
label_points_from_angles(angles) ==
    [k \in 1..Len(angles) |-> [x |-> angles[k], y |-> 30]]

\* number of boundary circles of every Compass
NumBoundary == 3

\* a Compass: maj and min are <<ticks, texts, points>> lengths, alt is
\* <<ALTITUDES, ortho circles, ortho points, stereo circles, stereo points>>
Compass(radius, maj, min, alt) ==
    [radius |-> radius,
     all_boundary_circles |-> Items("boundary", NumBoundary),
     major_azimuth_ticks |-> Items("major_tick", maj[1]),
     MAJOR_TEXT |-> Texts("M", maj[2]),
     major_azimuth_points |-> Points2D(maj[3], 10),
     minor_azimuth_ticks |-> Items("minor_tick", min[1]),
     MINOR_TEXT |-> Texts("m", min[2]),
     minor_azimuth_points |-> Points2D(min[3], 20),
     ALTITUDES |-> [k \in 1..alt[1] |-> 10 * k],
     orthographic_altitude_circles |-> Items("ortho_circle", alt[2]),
     orthographic_altitude_points |-> Points2D(alt[3], 40),
     stereographic_altitude_circles |-> Items("stereo_circle", alt[4]),
     stereographic_altitude_points |-> Points2D(alt[5], 50)]

\* a Legend with nt segment texts and nl segment text locations
Legend(nt, nl, height, fnt, continuous, vertical) ==
    [segment_mesh |-> [grp |-> "segment_mesh", i |-> 1],
     title |-> "Title",
     title_location |-> Plane(Point3D(0, 60, 0)),
     segment_text |-> Texts("s", nt),
     segment_text_location |->
         [k \in 1..nl |-> Plane(Point3D(k, 70, 0))],
     legend_parameters |->
         [text_height |-> height, font |-> fnt,
          continuous_legend |-> continuous, vertical |-> vertical]]

(* ---------------------------------------------------------------------- *)
(* Inputs the callers draw from                                            *)
(* ---------------------------------------------------------------------- *)

Prev(n) == IF n > 0 THEN n - 1 ELSE 0

\* index-aligned groups of every length, and groups with one short member
Aligned(n) == <<n, n, n>>

\* <<major, minor>> groups: index-aligned groups of every length, and
\* groups in which the texts or the points are one short
AzimuthShapes ==
    {<<Aligned(n), Aligned(m)>> : n \in 0..MaxLen, m \in 0..MaxLen}
        \cup {<<<<MaxLen, Prev(MaxLen), MaxLen>>, Aligned(MaxLen)>>,
              <<Aligned(Prev(MaxLen)), <<MaxLen, MaxLen, Prev(MaxLen)>>>>,
              <<<<MaxLen, MaxLen, Prev(MaxLen)>>,
                <<MaxLen, Prev(MaxLen), MaxLen>>>>}

AltShapes ==
    {<<n, n, n, n, n>> : n \in 0..MaxLen}
        \cup {<<MaxLen, MaxLen, Prev(MaxLen), Prev(MaxLen), MaxLen>>,
              <<Prev(MaxLen), Prev(MaxLen), MaxLen, MaxLen, Prev(MaxLen)>>}

SegmentShapes ==
    {<<n, n>> : n \in 0..MaxLen}
        \cup {<<MaxLen, Prev(MaxLen)>>, <<Prev(MaxLen), MaxLen>>}

Radii == {Rat(100, 1), Rat(7, 2)}

Heights == {0, 3}

Fonts == {"Arial", "Courier"}

TextHeights == {Rat(1, 1), Rat(1, 2)}

\* custom angles, not in ascending order
Angles == <<270, 0, 45, 90, 180>>

\* custom angle lists: None, the first m angles for every m, and a list
\* that repeats one angle
CustomAngleChoices ==
    {None}
        \cup {Some(SubSeq(Angles, 1, m)) : m \in 0..Min(MaxAngles, Len(Angles))}
        \cup {Some([k \in 1..MaxAngles |-> 90])}

\* letter-case variants of a word
Recase(w, how) ==
    [k \in 1..Len(w) |->
        CASE how = "lower" -> lower(w[k])
          [] how = "upper" -> upper(w[k])
          [] how = "swap" -> IF k = 1 THEN lower(w[k]) ELSE upper(w[k])
          [] OTHER -> w[k]]

Recasings == {"lower", "upper", "swap", "title"}

OtherNames ==
    {<<>>,
     <<"U", "n", "k", "n", "o", "w", "n">>,
     <<"o", "r", "t", "h", "o", " ", "g", "r", "a", "p", "h", "i", "c">>}

ProjectionNames ==
    {Recase(w, how) : w \in {Orthographic, Stereographic}, how \in Recasings}
        \cup OtherNames

ProjectionChoices == {None} \cup {Some(p) : p \in ProjectionNames}

\* every spelling of a word in upper and lower case letters
RECURSIVE Spellings(_)
Spellings(w) ==
    IF w = <<>> THEN {<<>>}
    ELSE {<<c>> \o rest :
             c \in {lower(Head(w)), upper(Head(w))},
             rest \in Spellings(Tail(w))}

AllSpellings ==
    {Some(p) : p \in Spellings(Orthographic) \cup Spellings(Stereographic)}

CompassChoices ==
    {Compass(r, az[1], az[2], alt) :
        r \in Radii, az \in AzimuthShapes, alt \in AltShapes}

LegendChoices ==
    {Legend(sh[1], sh[2], h, f, c, v) :
        sh \in SegmentShapes, h \in TextHeights, f \in Fonts,
        c \in BOOLEAN, v \in BOOLEAN}

(* ---------------------------------------------------------------------- *)
(* List objects                                                            *)
(* ---------------------------------------------------------------------- *)

ListIds == 1..(MaxKept + 1)

\* contents of the list the running call accumulates
Result == IF result \in DOMAIN heap THEN heap[result] ELSE <<>>

\* one list object shared by all calls (a module-level or default-argument
\* list) in place of a new one
NewList_shared(h) == 1

\* a list object that no one holds
NewList(h) == CHOOSE id \in ListIds :
                 /\ id \notin DOMAIN h
                 /\ \A j \in ListIds : j < id => j \in DOMAIN h

\* the heap after `name = []` binds the list object id
Allocate(h, id) ==
    [j \in DOMAIN h \cup {id} |-> IF j = id THEN <<>> ELSE h[j]]

\* list.insert(0, prim) in place of list.append(prim)
append_at_front(h, id, prim) == [h EXCEPT ![id] = <<prim>> \o @]

\* the heap after list.append(prim) on the list object id
append(h, id, prim) == [h EXCEPT ![id] = Append(@, prim)]

\* the heap after the last reference to the list object id is dropped
Free(h, id) == [j \in DOMAIN h \ {id} |-> h[j]]

(* ---------------------------------------------------------------------- *)
(* Initial state: no call is running, the caller holds no list             *)
(* ---------------------------------------------------------------------- *)

NoNumber == Rat(0, 1)

NoPrimitive == [kind |-> "None"]

\* the arguments and locals of no call
NoCompass == Compass(Rat(100, 1), <<0, 0, 0>>, <<0, 0, 0>>, <<0, 0, 0, 0, 0>>)

NoLegend == Legend(0, 0, Rat(1, 1), "Arial", FALSE, FALSE)

NoFrame ==
    /\ i = 1
    /\ compass = NoCompass
    /\ z = 0
    /\ custom_angles = None
    /\ projection = None
    /\ font = "Arial"
    /\ legend = NoLegend
    /\ maj_txt = NoNumber
    /\ min_txt = NoNumber
    /\ result = 0
    /\ legend_mesh = NoPrimitive
    /\ legend_title = NoPrimitive
    /\ legend_text = <<>>

\* the call's frame is gone and the caller lets go of the arguments
ClearFrame ==
    /\ i' = 1
    /\ compass' = NoCompass
    /\ z' = 0
    /\ custom_angles' = None
    /\ projection' = None
    /\ font' = "Arial"
    /\ legend' = NoLegend
    /\ maj_txt' = NoNumber
    /\ min_txt' = NoNumber
    /\ result' = 0
    /\ legend_mesh' = NoPrimitive
    /\ legend_title' = NoPrimitive
    /\ legend_text' = <<>>

\* no unit name has been read
NoUnits == <<>>

\* the frame of a thread that runs no call
IdleFrame ==
    [pc |-> "idle", i |-> 1, compass |-> NoCompass, z |-> 0,
     custom_angles |-> None, projection |-> None, font |-> "Arial",
     legend |-> NoLegend, maj_txt |-> NoNumber, min_txt |-> NoNumber,
     result |-> 0, legend_mesh |-> NoPrimitive,
     legend_title |-> NoPrimitive, legend_text |-> <<>>]

Init ==
    /\ pc = "idle"
    /\ NoFrame
    /\ heap = <<>>
    /\ kept = <<>>
    /\ scriptcontext = None
    /\ units = NoUnits
    /\ factor = NoNumber
    /\ raised = None
    /\ parked = IdleFrame

(* ---------------------------------------------------------------------- *)
(* compass_objects(compass, z, custom_angles, projection, font)            *)
(* ---------------------------------------------------------------------- *)

\* the caller enters compass_objects with its arguments
CallCompass(Cs, Zs, As, Ps, Fs) ==
    /\ pc = "idle"
    /\ \E c \in Cs, zz \in Zs, a \in As, p \in Ps, f \in Fs :
          /\ compass' = c
          /\ z' = zz
          /\ custom_angles' = a
          /\ projection' = p
          /\ font' = f
    /\ pc' = "compass_sizes"
    /\ i' = 1
    /\ maj_txt' = NoNumber
    /\ min_txt' = NoNumber
    /\ UNCHANGED <<legend, result, legend_mesh, legend_title, legend_text,
                   heap, kept, others>>

\* maj_txt = compass.radius / 20
MajorTextHeight(radius) == Div(radius, 20)

\* `maj_txt // 2` (integer division) in place of `maj_txt / 2`
MinorTextHeight_floor(maj) == Rat((maj.n \div maj.d) \div 2, 1)

\* min_txt = maj_txt / 2
MinorTextHeight(maj) == Div(maj, 2)

\* maj_txt = compass.radius / 20; min_txt = maj_txt / 2; result = []
compass_sizes ==
    /\ pc = "compass_sizes"
    /\ maj_txt' = MajorTextHeight(compass.radius)
    /\ min_txt' = MinorTextHeight(maj_txt')
    /\ result' = NewList(heap)
    /\ heap' = Allocate(heap, result')
    /\ pc' = "boundary_circles"
    /\ i' = 1
    /\ UNCHANGED <<args, legend_mesh, legend_title, legend_text, kept, others>>

\* one pass of `for x in xs: result.append(prim(x))`, or the loop's end;
\* prims[k] is the primitive the k-th pass builds
ForEach(here, prims, next) ==
    /\ pc = here
    /\ IF i <= Len(prims)
       THEN /\ heap' = append(heap, result, prims[i])
            /\ i' = i + 1
            /\ pc' = here
       ELSE /\ heap' = heap
            /\ i' = 1
            /\ pc' = next
    /\ UNCHANGED <<args, locals, result, kept, others>>

\* Plane(o=Point3D(pt.x, pt.y, 0)): the label left at height 0
LabelPlane_ground(pt) == Plane(Point3D(pt.x, pt.y, 0))

\* the plane a compass label is anchored on
LabelPlane(pt) == Plane(Point3D(pt.x, pt.y, z))

\* for circle in compass.all_boundary_circles
boundary_circles ==
    LET circles == compass.all_boundary_circles
    IN  ForEach("boundary_circles",
                [k \in DOMAIN circles |-> from_arc2d(circles[k], z)],
                "azimuth")

\* `if not custom_angles` in place of `if custom_angles is None`
AzimuthBranch_truthiness(angles) ==
    IF angles = None \/ angles.v = <<>> THEN "major_ticks" ELSE "custom_ticks"

\* if custom_angles is None
AzimuthBranch(angles) ==
    IF angles = None THEN "major_ticks" ELSE "custom_ticks"

azimuth ==
    /\ pc = "azimuth"
    /\ pc' = AzimuthBranch(custom_angles)
    /\ UNCHANGED <<i, args, locals, result, heap, kept, others>>

\* for line in compass.major_azimuth_ticks
major_ticks ==
    LET lines == compass.major_azimuth_ticks
    IN  ForEach("major_ticks",
                [k \in DOMAIN lines |-> from_linesegment2d(lines[k], z)],
                "major_text")

\* for txt, pt in zip(compass.MAJOR_TEXT, compass.major_azimuth_points)
major_text ==
    LET pairs == zip(compass.MAJOR_TEXT, compass.major_azimuth_points)
    IN  ForEach("major_text",
                [k \in DOMAIN pairs |->
                    text_objects(pairs[k][1], LabelPlane(pairs[k][2]), maj_txt, font, 1, 3)],
                "minor_ticks")

\* for line in compass.minor_azimuth_ticks
minor_ticks ==
    LET lines == compass.minor_azimuth_ticks
    IN  ForEach("minor_ticks",
                [k \in DOMAIN lines |-> from_linesegment2d(lines[k], z)],
                "minor_text")

\* the minor labels zipped with the major points
minor_text_major_points ==
    LET pairs == zip(compass.MINOR_TEXT, compass.major_azimuth_points)
    IN  ForEach("minor_text",
                [k \in DOMAIN pairs |->
                    text_objects(pairs[k][1], LabelPlane(pairs[k][2]), min_txt, font, 1, 3)],
                "altitude")

\* for txt, pt in zip(compass.MINOR_TEXT, compass.minor_azimuth_points)
minor_text ==
    LET pairs == zip(compass.MINOR_TEXT, compass.minor_azimuth_points)
    IN  ForEach("minor_text",
                [k \in DOMAIN pairs |->
                    text_objects(pairs[k][1], LabelPlane(pairs[k][2]), min_txt, font, 1, 3)],
                "altitude")

\* for line in compass.ticks_from_angles(custom_angles)
custom_ticks ==
    LET lines == ticks_from_angles(custom_angles.v)
    IN  ForEach("custom_ticks",
                [k \in DOMAIN lines |-> from_linesegment2d(lines[k], z)],
                "custom_text")

\* for txt, pt in enumerate(compass.label_points_from_angles(...)):
\* the label text is the position in the list, not the angle
custom_text_enumerate ==
    LET pts == label_points_from_angles(custom_angles.v)
    IN  ForEach("custom_text",
                [k \in DOMAIN pts |->
                    text_objects(str(k - 1), LabelPlane(pts[k]), maj_txt,
                                 font, 1, 3)],
                "altitude")

\* for txt, pt in zip(custom_angles,
\*                    compass.label_points_from_angles(custom_angles))
custom_text ==
    LET pairs == zip(custom_angles.v, label_points_from_angles(custom_angles.v))
    IN  ForEach("custom_text",
                [k \in DOMAIN pairs |->
                    text_objects(str(pairs[k][1]), LabelPlane(pairs[k][2]), maj_txt, font, 1, 3)],
                "altitude")

\* `else:` in place of `elif projection.title() == 'Stereographic':`
AltitudeBranch_else(p) ==
    IF p # None
    THEN IF title(p.v) = Orthographic THEN "ortho_circles"
         ELSE "stereo_circles"
    ELSE "compass_done"

\* the altitude block a projection argument selects
AltitudeBranch(p) ==
    IF p # None
    THEN IF title(p.v) = Orthographic THEN "ortho_circles"
         ELSE IF title(p.v) = Stereographic THEN "stereo_circles"
         ELSE "compass_done"
    ELSE "compass_done"

\* if projection is not None: if projection.title() == ...
altitude ==
    /\ pc = "altitude"
    /\ pc' = AltitudeBranch(projection)
    /\ UNCHANGED <<i, args, locals, result, heap, kept, others>>

\* for circle in compass.orthographic_altitude_circles
ortho_circles ==
    LET circles == compass.orthographic_altitude_circles
    IN  ForEach("ortho_circles",
                [k \in DOMAIN circles |-> from_arc2d(circles[k], z)],
                "ortho_text")

\* for txt, pt in zip(compass.ALTITUDES, compass.orthographic_altitude_points)
ortho_text ==
    LET pairs == zip(compass.ALTITUDES, compass.orthographic_altitude_points)
    IN  ForEach("ortho_text",
                [k \in DOMAIN pairs |->
                    text_objects(str(pairs[k][1]), LabelPlane(pairs[k][2]), min_txt, font, 1, 0)],
                "compass_done")

\* for circle in compass.stereographic_altitude_circles
stereo_circles ==
    LET circles == compass.stereographic_altitude_circles
    IN  ForEach("stereo_circles",
                [k \in DOMAIN circles |-> from_arc2d(circles[k], z)],
                "stereo_text")

\* the stereographic labels zipped with the orthographic points
stereo_text_ortho_points ==
    LET pairs == zip(compass.ALTITUDES, compass.orthographic_altitude_points)
    IN  ForEach("stereo_text",
                [k \in DOMAIN pairs |->
                    text_objects(str(pairs[k][1]), LabelPlane(pairs[k][2]), min_txt, font, 1, 0)],
                "compass_done")

\* for txt, pt in zip(compass.ALTITUDES, compass.stereographic_altitude_points)
stereo_text ==
    LET pairs == zip(compass.ALTITUDES, compass.stereographic_altitude_points)
    IN  ForEach("stereo_text",
                [k \in DOMAIN pairs |->
                    text_objects(str(pairs[k][1]), LabelPlane(pairs[k][2]), min_txt, font, 1, 0)],
                "compass_done")

(* ---------------------------------------------------------------------- *)
(* legend_objects(legend)                                                  *)
(* ---------------------------------------------------------------------- *)

\* the caller enters legend_objects with its argument
CallLegend(Ls) ==
    /\ pc = "idle"
    /\ \E l \in Ls : legend' = l
    /\ pc' = "legend_mesh"
    /\ i' = 1
    /\ legend_mesh' = NoPrimitive
    /\ legend_title' = NoPrimitive
    /\ legend_text' = <<>>
    /\ UNCHANGED <<compass, z, custom_angles, projection, font, maj_txt,
                   min_txt, result, heap, kept, others>>

_height == legend.legend_parameters.text_height

_font == legend.legend_parameters.font

\* legend_mesh = from_mesh3d(legend.segment_mesh)
legend_mesh_step ==
    /\ pc = "legend_mesh"
    /\ legend_mesh' = from_mesh3d(legend.segment_mesh)
    /\ pc' = "legend_title"
    /\ UNCHANGED <<i, args, maj_txt, min_txt, result, legend_title,
                   legend_text, heap, kept, others>>

\* legend_title = text_objects(legend.title, legend.title_location, ...)
legend_title_step ==
    /\ pc = "legend_title"
    /\ legend_title' = text_objects(legend.title, legend.title_location,
                                    _height, _font, DefaultJustify,
                                    DefaultJustify)
    /\ pc' = "legend_text"
    /\ UNCHANGED <<i, args, maj_txt, min_txt, result, legend_mesh,
                   legend_text, heap, kept, others>>

\* the vertical test made before the continuous_legend test
SegmentJustify_vertical_first(continuous_legend, vertical) ==
    IF vertical = TRUE THEN <<0, 3>>
    ELSE IF continuous_legend = FALSE THEN <<0, 5>>
    ELSE <<1, 5>>

\* the justification arguments of the segment labels
SegmentJustify(continuous_legend, vertical) ==
    IF continuous_legend = FALSE THEN <<0, 5>>
    ELSE IF vertical = TRUE THEN <<0, 3>>
    ELSE <<1, 5>>

\* legend_text = [text_objects(txt, loc, ...) for txt, loc in zip(...)]
legend_text_step ==
    LET pairs == zip(legend.segment_text, legend.segment_text_location)
        just == SegmentJustify(legend.legend_parameters.continuous_legend,
                               legend.legend_parameters.vertical)
    IN  /\ pc = "legend_text"
        /\ IF i <= Len(pairs)
           THEN /\ legend_text' =
                      Append(legend_text,
                             text_objects(pairs[i][1], pairs[i][2], _height,
                                          _font, just[1], just[2]))
                /\ i' = i + 1
                /\ pc' = pc
           ELSE /\ legend_text' = legend_text
                /\ i' = 1
                /\ pc' = "legend_return"
        /\ UNCHANGED <<args, maj_txt, min_txt, result, legend_mesh,
                       legend_title, heap, kept, others>>

\* return [legend_title] + [legend_mesh] + legend_text
legend_return_title_first ==
    /\ pc = "legend_return"
    /\ result' = NewList(heap)
    /\ heap' = [Allocate(heap, result') EXCEPT
                   ![result'] = <<legend_title>> \o <<legend_mesh>>
                                    \o legend_text]
    /\ pc' = "legend_done"
    /\ UNCHANGED <<i, args, locals, kept, others>>

\* return [legend_mesh] + [legend_title] + legend_text
legend_return ==
    /\ pc = "legend_return"
    /\ result' = NewList(heap)
    /\ heap' = [Allocate(heap, result') EXCEPT
                   ![result'] = <<legend_mesh>> \o <<legend_title>>
                                    \o legend_text]
    /\ pc' = "legend_done"
    /\ UNCHANGED <<i, args, locals, kept, others>>

(* ---------------------------------------------------------------------- *)
(* A kernel call that raises: neither function has a try statement, so the *)
(* exception leaves the function and takes the frame with it               *)
(* ---------------------------------------------------------------------- *)

\* what a failing kernel call raises
KernelErrors == {"ValueError", "TypeError"}

\* the kernel calls the statement at pc makes for one item
PendingCalls ==
    CASE pc \in {"boundary_circles", "ortho_circles", "stereo_circles"} ->
            {"from_arc2d"}
      [] pc \in {"major_ticks", "minor_ticks", "custom_ticks"} ->
            {"from_linesegment2d"}
      [] pc \in {"major_text", "minor_text", "custom_text", "ortho_text",
                 "stereo_text"} ->
            {"Plane", "text_objects"}
      [] pc = "legend_mesh" -> {"from_mesh3d"}
      [] pc \in {"legend_title", "legend_text"} -> {"text_objects"}
      [] OTHER -> {}

\* the number of items the statement at pc goes through
Items_at_pc ==
    CASE pc = "boundary_circles" -> Len(compass.all_boundary_circles)
      [] pc = "major_ticks" -> Len(compass.major_azimuth_ticks)
      [] pc = "major_text" ->
            Len(zip(compass.MAJOR_TEXT, compass.major_azimuth_points))
      [] pc = "minor_ticks" -> Len(compass.minor_azimuth_ticks)
      [] pc = "minor_text" ->
            Len(zip(compass.MINOR_TEXT, compass.minor_azimuth_points))
      [] pc = "custom_ticks" -> Len(ticks_from_angles(custom_angles.v))
      [] pc = "custom_text" ->
            Len(zip(custom_angles.v,
                    label_points_from_angles(custom_angles.v)))
      [] pc = "ortho_circles" -> Len(compass.orthographic_altitude_circles)
      [] pc = "ortho_text" ->
            Len(zip(compass.ALTITUDES, compass.orthographic_altitude_points))
      [] pc = "stereo_circles" -> Len(compass.stereographic_altitude_circles)
      [] pc = "stereo_text" ->
            Len(zip(compass.ALTITUDES, compass.stereographic_altitude_points))
      [] pc = "legend_text" ->
            Len(zip(legend.segment_text, legend.segment_text_location))
      [] pc \in {"legend_mesh", "legend_title"} -> 1
      [] OTHER -> 0

\* `try: ... except Exception: continue` around the kernel call of a loop:
\* the item is skipped and the loop goes on
KernelRaises_skipped(Errors) ==
    /\ PendingCalls # {}
    /\ pc \notin {"legend_mesh", "legend_title"}
    /\ i <= Items_at_pc
    /\ Errors # {}
    /\ i' = i + 1
    /\ UNCHANGED <<pc, args, locals, result, heap, kept, others>>

\* the kernel call of the next item raises: the exception propagates, the
\* locals and the list built so far are gone, nothing is returned
KernelRaises(Errors) ==
    /\ PendingCalls # {}
    /\ i <= Items_at_pc
    /\ \E c \in PendingCalls, e \in Errors :
          raised' = Some([error |-> e, from |-> pc, call |-> c, index |-> i])
    /\ pc' = "raised"
    /\ heap' = IF result \in DOMAIN heap THEN Free(heap, result) ELSE heap
    /\ result' = 0
    /\ i' = 1
    /\ maj_txt' = NoNumber
    /\ min_txt' = NoNumber
    /\ legend_mesh' = NoPrimitive
    /\ legend_title' = NoPrimitive
    /\ legend_text' = <<>>
    /\ UNCHANGED <<args, kept, scriptcontext, units, factor, parked>>

(* ---------------------------------------------------------------------- *)
(* Two threads: the arguments and locals of a call belong to the thread    *)
(* that makes it, the list objects live on the heap both threads see.  No  *)
(* statement of either function takes a lock, so the scheduler may switch  *)
(* threads between any two steps                                           *)
(* ---------------------------------------------------------------------- *)

\* the frame of the running thread
Frame ==
    [pc |-> pc, i |-> i, compass |-> compass, z |-> z,
     custom_angles |-> custom_angles, projection |-> projection,
     font |-> font, legend |-> legend, maj_txt |-> maj_txt,
     min_txt |-> min_txt, result |-> result, legend_mesh |-> legend_mesh,
     legend_title |-> legend_title, legend_text |-> legend_text]

\* `result` a module-level name in place of a local: a switch leaves it
Switch_shared_result ==
    /\ pc # "idle" \/ parked.pc # "idle"
    /\ parked' = [Frame EXCEPT !.result = parked.result]
    /\ pc' = parked.pc
    /\ i' = parked.i
    /\ compass' = parked.compass
    /\ z' = parked.z
    /\ custom_angles' = parked.custom_angles
    /\ projection' = parked.projection
    /\ font' = parked.font
    /\ legend' = parked.legend
    /\ maj_txt' = parked.maj_txt
    /\ min_txt' = parked.min_txt
    /\ result' = result
    /\ legend_mesh' = parked.legend_mesh
    /\ legend_title' = parked.legend_title
    /\ legend_text' = parked.legend_text
    /\ UNCHANGED <<heap, kept, scriptcontext, units, factor, raised>>

\* the scheduler parks the running thread and runs the other one
Switch ==
    /\ pc # "idle" \/ parked.pc # "idle"
    /\ parked' = Frame
    /\ pc' = parked.pc
    /\ i' = parked.i
    /\ compass' = parked.compass
    /\ z' = parked.z
    /\ custom_angles' = parked.custom_angles
    /\ projection' = parked.projection
    /\ font' = parked.font
    /\ legend' = parked.legend
    /\ maj_txt' = parked.maj_txt
    /\ min_txt' = parked.min_txt
    /\ result' = parked.result
    /\ legend_mesh' = parked.legend_mesh
    /\ legend_title' = parked.legend_title
    /\ legend_text' = parked.legend_text
    /\ UNCHANGED <<heap, kept, scriptcontext, units, factor, raised>>

(* ---------------------------------------------------------------------- *)
(* config.conversion_factor()                                              *)
(* ---------------------------------------------------------------------- *)

Meters == <<"M", "e", "t", "e", "r", "s">>

Millimeters == <<"M", "i", "l", "l", "i", "m", "e", "t", "e", "r", "s">>

Feet == <<"F", "e", "e", "t">>

Inches == <<"I", "n", "c", "h", "e", "s">>

Centimeters == <<"C", "e", "n", "t", "i", "m", "e", "t", "e", "r", "s">>

Kilometers == <<"K", "i", "l", "o", "m", "e", "t", "e", "r", "s">>

Yards == <<"Y", "a", "r", "d", "s">>

Miles == <<"M", "i", "l", "e", "s">>

\* s.split(sep): the pieces of s between the occurrences of the character
RECURSIVE split(_, _)
split(s, sep) ==
    IF \A k \in 1..Len(s) : s[k] # sep
    THEN <<s>>
    ELSE LET k == CHOOSE j \in 1..Len(s) :
                      /\ s[j] = sep
                      /\ \A h \in 1..(j - 1) : s[h] # sep
         IN  <<SubSeq(s, 1, k - 1)>> \o split(SubSeq(s, k + 1, Len(s)), sep)

\* seq[-1]
Last(seq) == seq[Len(seq)]

\* the unit names a document can report, in the spellings str() can give
UnitNames ==
    {Meters, Millimeters, Feet, Inches, Centimeters, Kilometers, Yards,
     Miles, <<>>}
      \cup {<<"m", "e", "t", "e", "r", "s">>, <<"M", "e", "t", "e", "r">>,
            <<"F", "E", "E", "T">>, <<"i", "n", "c", "h", "e", "s">>,
            <<"M", "i", "c", "r", "o", "n", "s">>, <<"N", "o", "n", "e">>}

UnitPrefixes ==
    {<<>>, <<"U", "n", "i", "t", "S", "y", "s", "t", "e", "m", ".">>,
     <<"R", "h", "i", "n", "o", ".", "U", "n", "i", "t", "S", "y", "s", "t",
       "e", "m", ".">>}

\* the hosts conversion_factor can run in: no scriptcontext module, or a
\* document whose str(ModelUnitSystem) is the given text
HostChoices ==
    {None} \cup {Some(p \o w) : p \in UnitPrefixes, w \in UnitNames}

\* the caller enters conversion_factor() in some host
CallConversionFactor(Hosts) ==
    /\ pc = "idle"
    /\ \E h \in Hosts : scriptcontext' = h
    /\ pc' = "import_scriptcontext"
    /\ UNCHANGED <<i, args, locals, result, heap, kept, units, factor,
                   raised, parked>>

\* try: import scriptcontext; units = str(...ModelUnitSystem).split('.')[-1]
\* except ImportError: units = 'Meters'
import_scriptcontext ==
    /\ pc = "import_scriptcontext"
    /\ units' = IF scriptcontext = None
                THEN Meters
                ELSE Last(split(scriptcontext.v, "."))
    /\ pc' = "units_table"
    /\ UNCHANGED <<i, args, locals, result, heap, kept, scriptcontext,
                   factor, raised, parked>>

\* the chain with `else: return 1.0` in place of the raise
FactorOf_else_one(u) ==
    IF u = Millimeters THEN Some(Rat(1, 1000))
    ELSE IF u = Feet THEN Some(Rat(305, 1000))
    ELSE IF u = Inches THEN Some(Rat(254, 10000))
    ELSE IF u = Centimeters THEN Some(Rat(1, 100))
    ELSE Some(Rat(1, 1))

\* the if / elif chain: the number returned, or None where it raises
FactorOf(u) ==
    IF u = Meters THEN Some(Rat(1, 1))
    ELSE IF u = Millimeters THEN Some(Rat(1, 1000))
    ELSE IF u = Feet THEN Some(Rat(305, 1000))
    ELSE IF u = Inches THEN Some(Rat(254, 10000))
    ELSE IF u = Centimeters THEN Some(Rat(1, 100))
    ELSE None

\* if units == 'Meters': return 1.0 ... else: raise ValueError(...)
units_table ==
    /\ pc = "units_table"
    /\ IF FactorOf(units) # None
       THEN /\ factor' = FactorOf(units).v
            /\ raised' = raised
            /\ pc' = "factor_done"
       ELSE /\ factor' = factor
            /\ raised' = Some([error |-> "ValueError", from |-> "units_table",
                               call |-> "conversion_factor", index |-> 0])
            /\ pc' = "raised"
    /\ UNCHANGED <<i, args, locals, result, heap, kept, scriptcontext,
                   units, parked>>

\* the caller takes the factor
UseFactor ==
    /\ pc = "factor_done"
    /\ pc' = "idle"
    /\ scriptcontext' = None
    /\ units' = NoUnits
    /\ factor' = NoNumber
    /\ UNCHANGED <<i, args, locals, result, heap, kept, raised, parked>>

\* the exception reaches the caller, which handles it and goes on
Caught ==
    /\ pc = "raised"
    /\ pc' = "idle"
    /\ ClearFrame
    /\ scriptcontext' = None
    /\ units' = NoUnits
    /\ factor' = NoNumber
    /\ raised' = None
    /\ UNCHANGED <<heap, kept, parked>>

(* ---------------------------------------------------------------------- *)
(* The caller                                                              *)
(* ---------------------------------------------------------------------- *)

Done == pc \in {"compass_done", "legend_done"}

\* the caller uses the returned list and drops it
Discard ==
    /\ Done
    /\ pc' = "idle"
    /\ heap' = Free(heap, result)
    /\ ClearFrame
    /\ UNCHANGED <<kept, others>>

\* the caller holds on to the returned list
Keep ==
    /\ Done
    /\ Len(kept) < MaxKept
    /\ kept' = Append(kept, [inputs |-> args, ref |-> result,
                             value |-> heap[result]])
    /\ pc' = "idle"
    /\ ClearFrame
    /\ UNCHANGED <<heap, others>>

\* the caller lets go of the oldest list it holds
Release ==
    /\ pc = "idle"
    /\ kept # <<>>
    /\ kept' = Tail(kept)
    /\ heap' = Free(heap, Head(kept).ref)
    /\ UNCHANGED <<pc, i, args, locals, result, others>>

CompassSteps ==
    \/ compass_sizes
    \/ boundary_circles
    \/ azimuth
    \/ major_ticks
    \/ major_text
    \/ minor_ticks
    \/ minor_text
    \/ custom_ticks
    \/ custom_text
    \/ altitude
    \/ ortho_circles
    \/ ortho_text
    \/ stereo_circles
    \/ stereo_text

LegendSteps ==
    \/ legend_mesh_step
    \/ legend_title_step
    \/ legend_text_step
    \/ legend_return

Call ==
    \/ CallCompass(CompassChoices, Heights, CustomAngleChoices,
                   ProjectionChoices, Fonts)
    \/ CallLegend(LegendChoices)

Steps == CompassSteps \/ LegendSteps

Next == Call \/ Steps \/ Discard

Spec == Init /\ [][Next]_vars

(* ---------------------------------------------------------------------- *)
(* A caller that keeps returned lists while it makes further calls         *)
(* ---------------------------------------------------------------------- *)

RepeatCompasses ==
    {Compass(Rat(100, 1), Aligned(MaxLen), Aligned(1),
             <<MaxLen, MaxLen, MaxLen, 1, 1>>)}

RepeatLegends ==
    {Legend(MaxLen, MaxLen, Rat(1, 1), "Arial", c, FALSE) : c \in BOOLEAN}

RepeatCall ==
    \/ CallCompass(RepeatCompasses, {0}, {None, Some(SubSeq(Angles, 1, 1))},
                   {None, Some(Orthographic),
                    Some(Recase(Stereographic, "lower"))},
                   {"Arial"})
    \/ CallLegend(RepeatLegends)

NextRepeat == RepeatCall \/ Steps \/ Discard \/ Keep \/ Release

SpecRepeat == Init /\ [][NextRepeat]_vars

(* ---------------------------------------------------------------------- *)
(* compass_objects called with every spelling of the two projection names  *)
(* ---------------------------------------------------------------------- *)

SpellingCompasses ==
    {Compass(Rat(100, 1), Aligned(1), Aligned(1),
             <<MaxLen, MaxLen, MaxLen, 1, 1>>)}

SpellingCall ==
    CallCompass(SpellingCompasses, {0}, {None, Some(SubSeq(Angles, 1, 1))},
                AllSpellings, {"Arial"})

NextSpelling == SpellingCall \/ CompassSteps \/ Discard

SpecSpelling == Init /\ [][NextSpelling]_vars

(* ---------------------------------------------------------------------- *)
(* conversion_factor called in every host                                  *)
(* ---------------------------------------------------------------------- *)

NextConfig ==
    \/ CallConversionFactor(HostChoices)
    \/ import_scriptcontext
    \/ units_table
    \/ UseFactor
    \/ Caught

SpecConfig == Init /\ [][NextConfig]_vars

(* ---------------------------------------------------------------------- *)
(* Calls on index-aligned descriptors with a kernel that can fail          *)
(* ---------------------------------------------------------------------- *)

FailCompasses ==
    {Compass(Rat(100, 1), Aligned(MaxLen), Aligned(1),
             <<MaxLen, MaxLen, MaxLen, MaxLen, MaxLen>>),
     Compass(Rat(7, 2), Aligned(1), Aligned(MaxLen), <<1, 1, 1, 1, 1>>)}

FailLegends ==
    {Legend(n, n, Rat(1, 1), "Arial", c, FALSE) :
        n \in {0, MaxLen}, c \in BOOLEAN}

FailCall ==
    \/ CallCompass(FailCompasses, {0, 3},
                   {None, Some(SubSeq(Angles, 1, MaxAngles))},
                   {None, Some(Orthographic),
                    Some(Recase(Stereographic, "upper")),
                    Some(<<"U", "n", "k", "n", "o", "w", "n">>)},
                   {"Arial"})
    \/ CallLegend(FailLegends)

NextFail ==
    \/ FailCall
    \/ Steps
    \/ KernelRaises(KernelErrors)
    \/ Discard
    \/ Caught

SpecFail == Init /\ [][NextFail]_vars

(* ---------------------------------------------------------------------- *)
(* Two threads calling the generators, each on descriptors of its own     *)
(* ---------------------------------------------------------------------- *)

ConcurrentCompasses ==
    {Compass(Rat(100, 1), Aligned(1), Aligned(1), <<1, 1, 1, 1, 1>>)}

ConcurrentLegends == {Legend(MaxLen, MaxLen, Rat(1, 1), "Arial", TRUE, TRUE)}

ConcurrentCall ==
    \/ CallCompass(ConcurrentCompasses, {0, 3},
                   {None, Some(SubSeq(Angles, 1, 1))},
                   {None, Some(Orthographic),
                    Some(Recase(Stereographic, "lower"))},
                   {"Arial"})
    \/ CallLegend(ConcurrentLegends)

NextConcurrent ==
    \/ ConcurrentCall
    \/ Steps
    \/ Switch
    \/ Discard

SpecConcurrent == Init /\ [][NextConcurrent]_vars

(* ---------------------------------------------------------------------- *)
(* Vocabulary of the properties                                            *)
(* ---------------------------------------------------------------------- *)

CompassPcs ==
    {"compass_sizes", "boundary_circles", "azimuth", "major_ticks",
     "major_text", "minor_ticks", "minor_text", "custom_ticks", "custom_text",
     "altitude", "ortho_circles", "ortho_text", "stereo_circles",
     "stereo_text", "compass_done"}

IsPrefix(a, b) ==
    /\ Len(a) <= Len(b)
    /\ \A k \in 1..Len(a) : a[k] = b[k]

Kinds(list) == [k \in 1..Len(list) |-> list[k].kind]

\* a label anchored over one of the 2D points pts
AnchoredOn(p, pts) ==
    \E k \in 1..Len(pts) : p.plane.o.x = pts[k].x /\ p.plane.o.y = pts[k].y

\* the block of the returned list a primitive belongs to, by what it shows:
\* 1 boundary, 2 major or custom ticks, 3 major or custom labels,
\* 4 minor ticks, 5 minor labels, 6 altitude circles, 7 altitude labels
BlockOf(p) ==
    CASE p.kind = "Arc" -> IF p.geo.grp = "boundary" THEN 1 ELSE 6
      [] p.kind = "Line" -> IF p.geo.grp = "minor_tick" THEN 4 ELSE 2
      [] p.kind = "Label" ->
            IF AnchoredOn(p, compass.minor_azimuth_points) THEN 5
            ELSE IF AnchoredOn(p, compass.orthographic_altitude_points)
                    \/ AnchoredOn(p, compass.stereographic_altitude_points)
                 THEN 7
            ELSE 3
      [] OTHER -> 0

InBlockOrder(list) ==
    \A k \in 1..Len(list) :
        /\ BlockOf(list[k]) >= 1
        /\ k > 1 => BlockOf(list[k - 1]) <= BlockOf(list[k])

\* C1: compass_objects only ever appends, one primitive at a time, so every
\* intermediate list is a prefix of the later ones, and the list is at every
\* step in block order: boundary Arcs, (major or custom) tick Lines, (major
\* or custom) Labels, minor tick Lines, minor Labels, altitude Arcs,
\* altitude Labels; the finished list starts with one Arc per boundary circle
C1_AppendOnlyBlockOrder ==
    [][(pc \in CompassPcs /\ pc' \in CompassPcs) =>
          /\ IsPrefix(Result, Result')
          /\ Len(Result') <= Len(Result) + 1
          /\ InBlockOrder(Result')
          /\ pc' = "compass_done" =>
                /\ Len(Result') >= Len(compass.all_boundary_circles)
                /\ \A k \in 1..Len(compass.all_boundary_circles) :
                      Result'[k] = from_arc2d(compass.all_boundary_circles[k], z)
      ]_vars

\* a finished default-mode call whose list shows all seven blocks
C1_Witness ==
    /\ pc = "compass_done"
    /\ custom_angles = None
    /\ {BlockOf(Result[k]) : k \in 1..Len(Result)} = 1..7

IndexAligned(c) ==
    /\ Len(c.major_azimuth_ticks) = Len(c.MAJOR_TEXT)
    /\ Len(c.major_azimuth_points) = Len(c.MAJOR_TEXT)
    /\ Len(c.minor_azimuth_ticks) = Len(c.MINOR_TEXT)
    /\ Len(c.minor_azimuth_points) = Len(c.MINOR_TEXT)

\* C2: with three boundary circles, index-aligned major and minor groups,
\* custom_angles None and projection None, compass_objects returns
\* 3 + 2 * major_count + 2 * minor_count primitives, the first 3 being Arcs
C2_DefaultCount ==
    (/\ pc = "compass_done"
     /\ custom_angles = None
     /\ projection = None
     /\ Len(compass.all_boundary_circles) = 3
     /\ IndexAligned(compass))
        => /\ Len(Result) = 3 + 2 * Len(compass.MAJOR_TEXT)
                              + 2 * Len(compass.MINOR_TEXT)
           /\ SubSeq(Kinds(Result), 1, 3) = <<"Arc", "Arc", "Arc">>

\* a finished default call with major and minor groups of different lengths
C2_Witness ==
    /\ pc = "compass_done"
    /\ custom_angles = None
    /\ projection = None
    /\ IndexAligned(compass)
    /\ Len(compass.MAJOR_TEXT) = MaxLen
    /\ Len(compass.MINOR_TEXT) = 1
    /\ Len(Result) = 5 + 2 * MaxLen

\* a primitive taken from the descriptor's default major or minor sequences
FromDefaultAzimuth(p) ==
    \/ /\ p.kind = "Line"
       /\ \/ \E k \in 1..Len(compass.major_azimuth_ticks) :
                p.geo = compass.major_azimuth_ticks[k]
          \/ \E k \in 1..Len(compass.minor_azimuth_ticks) :
                p.geo = compass.minor_azimuth_ticks[k]
    \/ /\ p.kind = "Label"
       /\ \/ \E k \in 1..Len(compass.MAJOR_TEXT) : p.text = compass.MAJOR_TEXT[k]
          \/ \E k \in 1..Len(compass.MINOR_TEXT) : p.text = compass.MINOR_TEXT[k]
          \/ AnchoredOn(p, compass.major_azimuth_points)
          \/ AnchoredOn(p, compass.minor_azimuth_points)

\* C3: with a custom_angles list of k angles (k = 0 included) the azimuth
\* block, which follows the boundary Arcs, is k Lines then k Labels; what
\* follows it is altitude geometry; nothing in the list comes from the
\* descriptor's major or minor sequences
C3_CustomAzimuthBlock ==
    (pc = "compass_done" /\ custom_angles # None) =>
        LET k == Len(custom_angles.v)
            b == Len(compass.all_boundary_circles)
        IN  /\ Len(Result) >= b + 2 * k
            /\ \A j \in 1..Len(Result) :
                  /\ (b < j /\ j <= b + k) => Result[j].kind = "Line"
                  /\ (b + k < j /\ j <= b + 2 * k) => Result[j].kind = "Label"
                  /\ j > b + 2 * k => BlockOf(Result[j]) \in {6, 7}
                  /\ j <= b + 2 * k => BlockOf(Result[j]) \in {1, 2, 3}
                  /\ ~FromDefaultAzimuth(Result[j])

\* a finished call with the empty custom_angles list on a descriptor that
\* has major and minor ticks, and one with a full list
C3_Witness ==
    /\ pc = "compass_done"
    /\ custom_angles = Some(<<>>)
    /\ Len(compass.major_azimuth_ticks) = MaxLen
    /\ Len(compass.minor_azimuth_ticks) = MaxLen
    /\ Len(Result) = 3

(* ---------------------------------------------------------------------- *)
(* The list section 4.2 of the specification describes, block by block,    *)
(* for the arguments of the running call                                   *)
(* ---------------------------------------------------------------------- *)

ExpectedMajorHeight == Rat(compass.radius.n, 20 * compass.radius.d)

ExpectedMinorHeight == Rat(compass.radius.n, 40 * compass.radius.d)

ExpectedArcs(circles) == [k \in DOMAIN circles |-> from_arc2d(circles[k], z)]

ExpectedLines(ticks) ==
    [k \in DOMAIN ticks |-> from_linesegment2d(ticks[k], z)]

ExpectedLabels(texts, pts, height, hj, vj) ==
    [k \in 1..Min(Len(texts), Len(pts)) |->
        text_objects(texts[k], Plane(Point3D(pts[k].x, pts[k].y, z)), height,
                     font, hj, vj)]

Strings(numbers) == [k \in DOMAIN numbers |-> str(numbers[k])]

ExpectedAzimuth ==
    IF custom_angles = None
    THEN ExpectedLines(compass.major_azimuth_ticks)
            \o ExpectedLabels(compass.MAJOR_TEXT, compass.major_azimuth_points,
                              ExpectedMajorHeight, 1, 3)
            \o ExpectedLines(compass.minor_azimuth_ticks)
            \o ExpectedLabels(compass.MINOR_TEXT, compass.minor_azimuth_points,
                              ExpectedMinorHeight, 1, 3)
    ELSE ExpectedLines(ticks_from_angles(custom_angles.v))
            \o ExpectedLabels(Strings(custom_angles.v),
                              label_points_from_angles(custom_angles.v),
                              ExpectedMajorHeight, 1, 3)

ExpectedNoAltitude ==
    ExpectedArcs(compass.all_boundary_circles) \o ExpectedAzimuth

ExpectedAltitude(circles, pts) ==
    ExpectedArcs(circles)
        \o ExpectedLabels(Strings(compass.ALTITUDES), pts,
                          ExpectedMinorHeight, 1, 0)

\* the projection name with its letter case removed
Caseless(name) == Recase(name, "lower")

CaseVariantOf(p, word) == p # None /\ Caseless(p.v) = Caseless(word)

Unrecognised(p) ==
    /\ p # None
    /\ ~CaseVariantOf(p, Orthographic)
    /\ ~CaseVariantOf(p, Stereographic)

\* C4: a projection name that is no case variant of 'Orthographic' or
\* 'Stereographic' ends the call normally with no altitude primitive; the
\* returned list is the list section 4.2 gives without an altitude block,
\* which is also what projection=None returns for the same other arguments
C4_UnrecognisedProjection ==
    (pc = "compass_done" /\ (projection = None \/ Unrecognised(projection)))
        => /\ Result = ExpectedNoAltitude
           /\ \A k \in 1..Len(Result) : BlockOf(Result[k]) \notin {6, 7}

\* a finished call with an unrecognised name on a descriptor that has
\* altitude circles for both projections
C4_Witness ==
    /\ pc = "compass_done"
    /\ Unrecognised(projection)
    /\ projection.v # <<>>
    /\ Len(compass.orthographic_altitude_circles) = MaxLen
    /\ Len(compass.stereographic_altitude_circles) = MaxLen
    /\ Len(Result) > 3

\* C5: the returned list depends on the projection name only through its
\* caseless form: for every case variant of 'orthographic' it is the one
\* list built from the orthographic sequences, for every case variant of
\* 'stereographic' the one built from the stereographic sequences
C5_CaseInsensitiveProjection ==
    pc = "compass_done" =>
        /\ CaseVariantOf(projection, Orthographic) =>
              Result = ExpectedNoAltitude
                          \o ExpectedAltitude(
                                 compass.orthographic_altitude_circles,
                                 compass.orthographic_altitude_points)
        /\ CaseVariantOf(projection, Stereographic) =>
              Result = ExpectedNoAltitude
                          \o ExpectedAltitude(
                                 compass.stereographic_altitude_circles,
                                 compass.stereographic_altitude_points)

\* a finished call with 'oRTHOgrAPHic' that produced altitude geometry
C5_Witness ==
    /\ pc = "compass_done"
    /\ projection = Some(<<"o", "R", "T", "H", "O", "g", "r", "A", "P", "H",
                           "i", "c">>)
    /\ \E k \in 1..Len(Result) : BlockOf(Result[k]) = 6
    /\ \E k \in 1..Len(Result) : BlockOf(Result[k]) = 7

\* the last n primitives of a list
LastN(list, n) == SubSeq(list, Len(list) - n + 1, Len(list))

\* the altitude block is the end of the list: one Arc per circle, then one
\* Label per (ALTITUDES[j], pts[j]) pair with the altitude's string as text,
\* height min_txt and justification 1 / 0; nothing of `others` is in the list
AltitudeBlockIs(circles, pts, otherCircles, otherPts) ==
    LET n == Len(circles)
        m == Min(Len(compass.ALTITUDES), Len(pts))
        block == LastN(Result, n + m)
    IN  /\ Len(Result) >= n + m
        /\ \A k \in 1..(Len(Result) - (n + m)) : BlockOf(Result[k]) <= 5
        /\ \A k \in 1..n :
              /\ block[k].kind = "Arc"
              /\ block[k].geo = circles[k]
        /\ \A j \in 1..m :
              /\ block[n + j].kind = "Label"
              /\ block[n + j].text = str(compass.ALTITUDES[j])
              /\ block[n + j].plane.o.x = pts[j].x
              /\ block[n + j].plane.o.y = pts[j].y
              /\ block[n + j].height = min_txt
              /\ block[n + j].hj = 1
              /\ block[n + j].vj = 0
        /\ \A k \in 1..Len(Result) :
              /\ Result[k].kind = "Arc" =>
                    \A c \in 1..Len(otherCircles) :
                        Result[k].geo # otherCircles[c]
              /\ Result[k].kind = "Label" => ~AnchoredOn(Result[k], otherPts)

\* C6: an Orthographic call ends its list with the orthographic altitude
\* Arcs followed by the orthographic altitude Labels, a Stereographic call
\* with the stereographic ones, and neither contains geometry of the other
C6_AltitudeBlock ==
    pc = "compass_done" =>
        /\ CaseVariantOf(projection, Orthographic) =>
              AltitudeBlockIs(compass.orthographic_altitude_circles,
                              compass.orthographic_altitude_points,
                              compass.stereographic_altitude_circles,
                              compass.stereographic_altitude_points)
        /\ CaseVariantOf(projection, Stereographic) =>
              AltitudeBlockIs(compass.stereographic_altitude_circles,
                              compass.stereographic_altitude_points,
                              compass.orthographic_altitude_circles,
                              compass.orthographic_altitude_points)

\* a finished Stereographic call on a descriptor whose two projections have
\* point sequences of different lengths
C6_Witness ==
    /\ pc = "compass_done"
    /\ CaseVariantOf(projection, Stereographic)
    /\ Len(compass.stereographic_altitude_points)
          # Len(compass.orthographic_altitude_points)
    /\ \E k \in 1..Len(Result) : BlockOf(Result[k]) = 7

\* C7: legend_objects returns, for n index-aligned segment texts and
\* locations, n + 2 primitives: the converted segment_mesh, the title Label
\* at title_location, then the Label of segment_text[j] at
\* segment_text_location[j] for j = 1..n
C7_LegendOrder ==
    (/\ pc = "legend_done"
     /\ Len(legend.segment_text) = Len(legend.segment_text_location))
        => LET n == Len(legend.segment_text)
           IN  /\ Len(Result) = n + 2
               /\ Result[1] = from_mesh3d(legend.segment_mesh)
               /\ Result[2].kind = "Label"
               /\ Result[2].text = legend.title
               /\ Result[2].plane = legend.title_location
               /\ \A j \in 1..n :
                     /\ Result[2 + j].kind = "Label"
                     /\ Result[2 + j].text = legend.segment_text[j]
                     /\ Result[2 + j].plane = legend.segment_text_location[j]

\* a finished legend call with the longest index-aligned segment list
C7_Witness ==
    /\ pc = "legend_done"
    /\ Len(legend.segment_text) = MaxLen
    /\ Len(legend.segment_text_location) = MaxLen
    /\ Len(Result) = MaxLen + 2

\* the justification table of the claim, by (continuous_legend, vertical)
JustifyTable(continuous, vertical) ==
    CASE ~continuous /\ ~vertical -> <<0, 5>>
      [] ~continuous /\ vertical -> <<0, 5>>
      [] continuous /\ vertical -> <<0, 3>>
      [] continuous /\ ~vertical -> <<1, 5>>

\* C8: every segment label of a legend_objects call has the justification
\* the table gives for the legend's (continuous_legend, vertical)
C8_SegmentJustification ==
    pc = "legend_done" =>
        \A j \in 3..Len(Result) :
            <<Result[j].hj, Result[j].vj>> =
                JustifyTable(legend.legend_parameters.continuous_legend,
                             legend.legend_parameters.vertical)

\* a finished call on a non-continuous vertical legend with segment labels
C8_Witness ==
    /\ pc = "legend_done"
    /\ legend.legend_parameters.continuous_legend = FALSE
    /\ legend.legend_parameters.vertical = TRUE
    /\ Len(Result) = MaxLen + 2

\* the number h is the number r divided by the integer k
IsQuotient(h, r, k) == h.n * k * r.d = r.n * h.d

KeptListsIntact ==
    /\ \A j \in DOMAIN kept :
          /\ kept[j].ref # result
          /\ kept[j].ref \in DOMAIN heap
          /\ heap[kept[j].ref] = kept[j].value
    /\ \A j, k \in DOMAIN kept :
          /\ j # k => kept[j].ref # kept[k].ref
          /\ kept[j].inputs = kept[k].inputs => kept[j].value = kept[k].value
    /\ Done =>
          \A j \in DOMAIN kept :
              kept[j].inputs = args => kept[j].value = Result

\* C10: a running call never changes its arguments (the descriptor and the
\* custom_angles list among them), and after every step the lists returned
\* earlier are intact: distinct objects, unchanged by later calls, and equal
\* for equal arguments whatever was called in between
C10_Stateless ==
    [][/\ (pc # "idle" /\ pc' # "idle") => args' = args
       /\ KeptListsIntact'
      ]_vars

\* two lists returned for the same custom-angle Orthographic call are held
\* while a third, different call has finished
C10_Witness ==
    /\ pc = "compass_done"
    /\ Len(kept) = 2
    /\ kept[1].inputs = kept[2].inputs
    /\ kept[1].inputs # args
    /\ kept[1].inputs[3] # None
    /\ kept[1].inputs[4] # None
    /\ kept[1].ref # kept[2].ref
    /\ Len(kept[1].value) > 3
    /\ Len(Result) > 3

\* every 2D anchor point a label of the running call can stand on
AnchorPoints ==
    {compass.major_azimuth_points[k] :
        k \in DOMAIN compass.major_azimuth_points}
      \cup {compass.minor_azimuth_points[k] :
               k \in DOMAIN compass.minor_azimuth_points}
      \cup {compass.orthographic_altitude_points[k] :
               k \in DOMAIN compass.orthographic_altitude_points}
      \cup {compass.stereographic_altitude_points[k] :
               k \in DOMAIN compass.stereographic_altitude_points}
      \cup (IF custom_angles = None THEN {}
            ELSE {label_points_from_angles(custom_angles.v)[k] :
                     k \in DOMAIN custom_angles.v})

\* C14: at every step of compass_objects every primitive of the list lies
\* at the caller's z: Arcs and Lines are built with z as height, Labels
\* stand on a plane whose origin is (pt.x, pt.y, z) for an anchor point pt
C14_AllAtHeightZ ==
    pc \in CompassPcs =>
        \A k \in 1..Len(Result) :
            /\ Result[k].kind \in {"Arc", "Line", "Label"}
            /\ Result[k].kind \in {"Arc", "Line"} => Result[k].z = z
            /\ Result[k].kind = "Label" =>
                  /\ Result[k].plane.o.z = z
                  /\ \E pt \in AnchorPoints :
                        /\ Result[k].plane.o.x = pt.x
                        /\ Result[k].plane.o.y = pt.y

\* a finished call at z = 3 whose list holds Arcs, Lines, azimuth Labels
\* and altitude Labels
C14_Witness ==
    /\ pc = "compass_done"
    /\ z = 3
    /\ {1, 2, 3, 6, 7} \subseteq {BlockOf(Result[k]) : k \in 1..Len(Result)}

\* C15: in custom mode the Lines after the boundary Arcs are the ticks of
\* ticks_from_angles(custom_angles) in the order returned, and the j-th
\* Label after them has the string of custom_angles[j] as text, stands on
\* the j-th point of label_points_from_angles(custom_angles), has height
\* maj_txt and justification 1 / 3
C15_CustomLabels ==
    (pc = "compass_done" /\ custom_angles # None) =>
        LET n == Len(custom_angles.v)
            b == Len(compass.all_boundary_circles)
            ticks == ticks_from_angles(custom_angles.v)
            pts == label_points_from_angles(custom_angles.v)
        IN  /\ Len(Result) >= b + 2 * n
            /\ \A j \in 1..n :
                  /\ Result[b + j].kind = "Line"
                  /\ Result[b + j].geo = ticks[j]
                  /\ Result[b + n + j].kind = "Label"
                  /\ Result[b + n + j].text = str(custom_angles.v[j])
                  /\ Result[b + n + j].plane.o.x = pts[j].x
                  /\ Result[b + n + j].plane.o.y = pts[j].y
                  /\ Result[b + n + j].height = maj_txt
                  /\ Result[b + n + j].hj = 1
                  /\ Result[b + n + j].vj = 3

\* a finished custom-mode call with the angles 270, 0 in that order
C15_Witness ==
    /\ pc = "compass_done"
    /\ custom_angles = Some(SubSeq(Angles, 1, 2))
    /\ Len(Result) >= 7
    /\ Result[6].text = "270"
    /\ Result[7].text = "0"

\* the number of primitives of a list that belong to a block
CountBlock(list, b) ==
    Cardinality({k \in 1..Len(list) : BlockOf(list[k]) = b})

\* C16: with text and point sequences of different lengths the calls still
\* finish: legend_objects returns 2 + min(texts, locations) primitives,
\* the j-th label pairing segment_text[j] with segment_text_location[j];
\* each label group of compass_objects has min(texts, points) Labels while
\* Lines and Arcs are one per tick and per circle
C16_ShorterSequenceWins ==
    /\ pc = "legend_done" =>
          LET n == Min(Len(legend.segment_text),
                       Len(legend.segment_text_location))
          IN  /\ Len(Result) = 2 + n
              /\ \A j \in 1..n :
                    /\ Result[2 + j].text = legend.segment_text[j]
                    /\ Result[2 + j].plane = legend.segment_text_location[j]
    /\ (pc = "compass_done" /\ custom_angles = None) =>
          /\ CountBlock(Result, 2) = Len(compass.major_azimuth_ticks)
          /\ CountBlock(Result, 3) =
                Min(Len(compass.MAJOR_TEXT), Len(compass.major_azimuth_points))
          /\ CountBlock(Result, 4) = Len(compass.minor_azimuth_ticks)
          /\ CountBlock(Result, 5) =
                Min(Len(compass.MINOR_TEXT), Len(compass.minor_azimuth_points))
    /\ pc = "compass_done" =>
          /\ CountBlock(Result, 1) = Len(compass.all_boundary_circles)
          /\ CaseVariantOf(projection, Orthographic) =>
                /\ CountBlock(Result, 6) =
                      Len(compass.orthographic_altitude_circles)
                /\ CountBlock(Result, 7) =
                      Min(Len(compass.ALTITUDES),
                          Len(compass.orthographic_altitude_points))
          /\ CaseVariantOf(projection, Stereographic) =>
                /\ CountBlock(Result, 6) =
                      Len(compass.stereographic_altitude_circles)
                /\ CountBlock(Result, 7) =
                      Min(Len(compass.ALTITUDES),
                          Len(compass.stereographic_altitude_points))

\* a finished default-mode Orthographic call on a compass with more major
\* texts than major points and more altitudes than orthographic points
C16_Witness ==
    /\ pc = "compass_done"
    /\ custom_angles = None
    /\ CaseVariantOf(projection, Orthographic)
    /\ Len(compass.MAJOR_TEXT) > Len(compass.major_azimuth_points)
    /\ Len(compass.ALTITUDES) > Len(compass.orthographic_altitude_points)
    /\ Len(compass.orthographic_altitude_points) > 0

\* u is what follows the last '.' of text (all of text if it has none)
IsUnitNameOf(u, text) ==
    \E k \in 0..Len(text) :
        /\ u = SubSeq(text, k + 1, Len(text))
        /\ \A j \in 1..Len(u) : u[j] # "."
        /\ k = 0 \/ text[k] = "."

SupportedUnits == {Meters, Millimeters, Feet, Inches, Centimeters}

\* C13: conversion_factor ends either with the factor of the fixed table
\* (Meters 1.0, Millimeters 0.001, Feet 0.305, Inches 0.0254, Centimeters
\* 0.01) for the document's unit name, or with a ValueError and no factor
\* for any other name; without a host module the name is Meters, factor 1.0
C13_UnitTable ==
    pc \in {"factor_done", "raised"} =>
        /\ scriptcontext = None => units = Meters /\ pc = "factor_done"
        /\ scriptcontext # None => IsUnitNameOf(units, scriptcontext.v)
        /\ units = Meters => factor = Rat(1, 1)
        /\ units = Millimeters => factor = Rat(1, 1000)
        /\ units = Feet => factor = Rat(305, 1000)
        /\ units = Inches => factor = Rat(254, 10000)
        /\ units = Centimeters => factor = Rat(1, 100)
        /\ units \in SupportedUnits <=> pc = "factor_done"
        /\ pc = "factor_done" => raised = None
        /\ pc = "raised" =>
              /\ raised # None
              /\ raised.v.error = "ValueError"
              /\ factor = NoNumber

\* a document reporting Rhino.UnitSystem.Kilometers: the call has raised
C13_Witness ==
    /\ pc = "raised"
    /\ scriptcontext # None
    /\ Len(scriptcontext.v) > Len(Kilometers)
    /\ units = Kilometers
    /\ raised # None

\* the whole list of a compass_objects call, for the running call's
\* arguments
ExpectedCompass ==
    ExpectedNoAltitude
        \o (IF CaseVariantOf(projection, Orthographic)
            THEN ExpectedAltitude(compass.orthographic_altitude_circles,
                                  compass.orthographic_altitude_points)
            ELSE IF CaseVariantOf(projection, Stereographic)
            THEN ExpectedAltitude(compass.stereographic_altitude_circles,
                                  compass.stereographic_altitude_points)
            ELSE <<>>)

\* the whole list of a legend_objects call, for the running call's legend
ExpectedLegend ==
    LET just == JustifyTable(legend.legend_parameters.continuous_legend,
                             legend.legend_parameters.vertical)
        n == Min(Len(legend.segment_text), Len(legend.segment_text_location))
    IN  <<from_mesh3d(legend.segment_mesh),
          text_objects(legend.title, legend.title_location,
                       legend.legend_parameters.text_height,
                       legend.legend_parameters.font, DefaultJustify,
                       DefaultJustify)>>
            \o [k \in 1..n |->
                   text_objects(legend.segment_text[k],
                                legend.segment_text_location[k],
                                legend.legend_parameters.text_height,
                                legend.legend_parameters.font,
                                just[1], just[2])]

KernelCallNames ==
    {"from_arc2d", "from_linesegment2d", "from_mesh3d", "Plane",
     "text_objects"}

\* C12: on index-aligned descriptors a call ends in one of two ways: it
\* returns the complete list with no exception in flight, or it ends with
\* the exception a kernel call raised, with no list returned or left
\* behind and nothing of the call still running; no exception exists at
\* any other moment
C12_KernelFailuresOnly ==
    /\ pc = "compass_done" => raised = None /\ Result = ExpectedCompass
    /\ pc = "legend_done" => raised = None /\ Result = ExpectedLegend
    /\ pc # "raised" => raised = None
    /\ pc = "raised" =>
          /\ raised # None
          /\ raised.v.error \in KernelErrors
          /\ raised.v.call \in KernelCallNames
          /\ raised.v.index >= 1
          /\ result = 0
          /\ DOMAIN heap = {}
          /\ legend_mesh = NoPrimitive
          /\ legend_title = NoPrimitive
          /\ legend_text = <<>>

\* the text_objects call of the second orthographic altitude label raised
\* a TypeError: the call on an index-aligned compass ended with it
C12_Witness ==
    /\ pc = "raised"
    /\ IndexAligned(compass)
    /\ raised = Some([error |-> "TypeError", from |-> "ortho_text",
                      call |-> "text_objects", index |-> 2])
    /\ result = 0

\* C11: with two threads switched between any two steps, the list a
\* compass_objects call is building is at every moment the beginning of
\* the list the call returns when run alone, the list a finished call
\* returns is exactly that list, and the two threads never hold the same
\* list object, so no primitive of one call gets into the other's result
C11_Isolated ==
    /\ (pc \in CompassPcs /\ result \in DOMAIN heap) =>
          IsPrefix(Result, ExpectedCompass)
    /\ pc = "compass_done" => Result = ExpectedCompass
    /\ pc = "legend_done" => Result = ExpectedLegend
    /\ Done => result \in DOMAIN heap
    /\ (result # 0 /\ parked.result # 0) => result # parked.result

\* a compass_objects call at z = 3 has returned while the other thread is
\* inside a compass_objects call at z = 0 whose list already holds
\* primitives and is not finished
C11_Witness ==
    /\ pc = "compass_done"
    /\ z = 3
    /\ Len(Result) > 3
    /\ parked.pc \in {"major_text", "custom_text", "ortho_circles"}
    /\ parked.z = 0
    /\ parked.result \in DOMAIN heap
    /\ Len(heap[parked.result]) > 3

====
